---- MODULE Spec2Model ----
(***************************************************************************)
(* Governed retrieval gateway (infiligence/governed-rag).                  *)
(*                                                                         *)
(* State machine of the retrieval pipeline (pre-filter, policy decision    *)
(* point, evidence threshold), the step-up session store and the           *)
(* hash-chained audit ledger, translated from the TypeScript services,     *)
(* the Rego policy and the SQL schema.                                     *)
(***************************************************************************)
EXTENDS Integers, Sequences, FiniteSets, TLC

(***************************************************************************)
(* Bounds of the model.                                                    *)
(***************************************************************************)
MaxChunks == 2
MaxTopK == 2
MaxMinEvidence == 2

(***************************************************************************)
(* JavaScript values carried in the attribute bag of a user.               *)
(***************************************************************************)
Undef == [t |-> "undef", v |-> ""]
Str(s) == [t |-> "str", v |-> s]
Bool(s) == [t |-> "bool", v |-> s]

\* JavaScript truthiness, as used by `a || b` and `if (a)`
Truthy(x) == CASE x.t = "undef" -> FALSE
               [] x.t = "bool" -> x.v = "true"
               [] OTHER -> x.v # ""

(***************************************************************************)
(* Store: documents and chunks.                                            *)
(***************************************************************************)
Labels == {"Public", "Internal", "Confidential", "Regulated"}
TENANT == "dash"
Tenants == {TENANT, "acme"}

(***************************************************************************)
(* Callers of the retriever: the User objects passed to retrieve().        *)
(***************************************************************************)
MkUser(id, groups, clearance, mfa, export, tenant) ==
    [user_id |-> id, groups |-> groups,
     attrs |-> [clearance |-> clearance, mfa_satisfied |-> mfa, allow_export |-> export],
     tenant |-> tenant]

RetrieverUsers ==
    { MkUser("test@example.com", {"eng"}, Str("internal"), Undef, Undef, TENANT),
      MkUser("bob@dash", {"eng", "security"}, Str("confidential"), Undef, Undef, TENANT),
      MkUser("bob@dash", {"eng", "security"}, Str("confidential"), Str("true"), Undef, TENANT),
      MkUser("bob@dash", {"eng", "security"}, Str("confidential"), Bool("false"), Undef, TENANT),
      MkUser("sam@legal", {"legal", "compliance"}, Str("regulated"), Str("true"), Undef, TENANT),
      MkUser("guest@dash", {"eng"}, Undef, Undef, Undef, TENANT),
      MkUser("root@dash", {"eng"}, Str("secret"), Str("true"), Undef, TENANT),
      MkUser("carol@acme", {"eng"}, Str("regulated"), Str("true"), Undef, "acme") }

NoUser == MkUser("", {}, Undef, Undef, Undef, TENANT)

VARIABLES
    chunks,     \* the chunks table joined with documents, in created_at order
    last,       \* the outcome of the call being observed (calls are observed
                \* one at a time; NoCall between calls)
    ledger,     \* the audit_events table: committed rows in commit order
    pristine,   \* history: each row of audit_events as it was inserted
    clock,      \* the wall clock read by new Date() and NOW()
    inflight,   \* per writer: the audit insert it is in the middle of
    dbError,    \* the error raised by the last statement on audit_events
    tampers,    \* number of direct writes made with the guard disabled
    sessionStore, \* the gateway's session map: the keys that are set
    timers,     \* pending setTimeout callbacks of the gateway
    now,        \* the time of the gateway process, in seconds
    immediates, \* pending setImmediate callbacks of the gateway's auditLog
    sourceRegistry \* the federation service's registered sources, in insertion order

retrVars == <<chunks, last>>
ledgerVars == <<ledger, pristine, clock, inflight, dbError, tampers>>
sessVars == <<sessionStore, timers, now, immediates, sourceRegistry>>
vars == <<chunks, last, ledger, pristine, clock, inflight, dbError, tampers,
          sessionStore, timers, now, immediates, sourceRegistry>>

(***************************************************************************)
(* Sequence helpers.                                                       *)
(***************************************************************************)
Min(a, b) == IF a < b THEN a ELSE b

\* Array.prototype.slice(0, n) and SQL LIMIT n
Take(s, n) == SubSeq(s, 1, Min(n, Len(s)))

Reverse(s) == [i \in 1..Len(s) |-> s[Len(s) + 1 - i]]

(***************************************************************************)
(* The shipped policy (access.rego).                                       *)
(***************************************************************************)
\* Rego `not x`: holds when x is undefined or false
RegoNot(x) == x.t = "undef" \/ x = Bool("false")

allow(input) ==
    \/ input.action = "read" /\ input.resource.label = "Public"
    \/ input.action = "read" /\ input.resource.label = "Internal"
         /\ "eng" \in input.subject.groups
    \/ input.action = "read" /\ input.resource.label = "Confidential"
         /\ input.subject.attrs.clearance = Str("confidential")
    \/ input.action = "read" /\ input.resource.label = "Regulated"
         /\ input.subject.attrs.clearance = Str("regulated")

step_up_required(input) ==
    /\ input.resource.label \in {"Confidential", "Regulated"}
    /\ RegoNot(input.subject.attrs.mfa_satisfied)

(***************************************************************************)
(* The PDP wrapper service, POST /authorize.                               *)
(***************************************************************************)
\* what can go wrong between the retriever and the policy engine
Faults == {"none", "unreachable", "opa_down", "malformed"}

\* SubjectSchema: attrs is z.record(z.string()), every present value a string
SubjectSchema(subject) ==
    \A k \in DOMAIN subject.attrs : subject.attrs[k].t \in {"undef", "str"}

AuthorizationRequestSchema(req) == SubjectSchema(req.subject)

NoData == [allow |-> Undef, step_up_required |-> Undef, reason |-> Undef]

\* the HTTP reply of POST /authorize: status and body
Authorize(req, opaDown) ==
    IF ~AuthorizationRequestSchema(req) \/ opaDown
    THEN [status |-> 500, data |-> NoData]
    ELSE [status |-> 200,
          data |-> [allow |-> IF allow(req) THEN Bool("true") ELSE Bool("false"),
                    step_up_required |-> IF step_up_required(req)
                                         THEN Bool("true") ELSE Bool("false"),
                    reason |-> IF allow(req) THEN Str("Access granted")
                               ELSE Str("Access denied by policy")]]

(***************************************************************************)
(* GovernedRetriever (gateway-api/src/retriever.ts).                       *)
(***************************************************************************)
getAllowedLabelsOpen(clearanceLevel) ==
    CASE clearanceLevel = "public" -> {"Public"}
      [] clearanceLevel = "internal" -> {"Public", "Internal"}
      [] clearanceLevel = "confidential" -> {"Public", "Internal", "Confidential"}
      [] clearanceLevel = "regulated" -> Labels
      [] OTHER -> Labels

getAllowedLabels(clearanceLevel) ==
    CASE clearanceLevel = "public" -> {"Public"}
      [] clearanceLevel = "internal" -> {"Public", "Internal"}
      [] clearanceLevel = "confidential" -> {"Public", "Internal", "Confidential"}
      [] clearanceLevel = "regulated" -> Labels
      [] OTHER -> {"Public"}

\* the Chunk object built from a selected row
RowToChunk(row) ==
    [chunk_id |-> row.chunk_id, label |-> row.label,
     source |-> row.source, owner_user_id |-> row.owner_user_id]

preFilterChunksAnyTenant(rows, user, limit) ==
    LET clearanceLevel == IF Truthy(user.attrs.clearance)
                          THEN user.attrs.clearance.v ELSE "public"
        allowedLabels == getAllowedLabels(clearanceLevel)
        Match(row) == row.label \in allowedLabels
        selected == Take(Reverse(SelectSeq(rows, Match)), limit)
    IN  [i \in 1..Len(selected) |-> RowToChunk(selected[i])]

\* WHERE c.label = ANY($1) AND d.tenant = $2 ORDER BY c.created_at DESC LIMIT $3
preFilterChunks(rows, user, limit) ==
    LET clearanceLevel == IF Truthy(user.attrs.clearance)
                          THEN user.attrs.clearance.v ELSE "public"
        allowedLabels == getAllowedLabels(clearanceLevel)
        Match(row) == row.label \in allowedLabels /\ row.tenant = user.tenant
        selected == Take(Reverse(SelectSeq(rows, Match)), limit)
    IN  [i \in 1..Len(selected) |-> RowToChunk(selected[i])]

pdpRequest(user, chunk) ==
    [subject |-> [user_id |-> user.user_id, groups |-> user.groups,
                  attrs |-> user.attrs],
     resource |-> [label |-> chunk.label, source |-> chunk.source,
                   owner |-> chunk.owner_user_id, tenant |-> user.tenant],
     action |-> "read"]

\* axios.post: throws when the engine is unreachable, times out or answers
\* non-2xx; a 2xx body without the decision fields destructures to undefined
AxiosPost(req, fault) ==
    LET reply == Authorize(req, fault = "opa_down")
    IN  CASE fault = "unreachable" -> [threw |-> TRUE, data |-> NoData]
          [] fault = "malformed" -> [threw |-> FALSE, data |-> NoData]
          [] OTHER -> [threw |-> reply.status # 200, data |-> reply.data]

\* if (step_up_required) ... else if (allow) ... else ...
DecisionOf(data) ==
    IF Truthy(data.step_up_required) THEN "STEP_UP_REQUIRED"
    ELSE IF Truthy(data.allow) THEN "ALLOW"
    ELSE "DENY"

evaluatePolicyFailOpen(user, chunk, fault) ==
    LET response == AxiosPost(pdpRequest(user, chunk), fault)
    IN  IF response.threw
        THEN [chunk_id |-> chunk.chunk_id, decision |-> "ALLOW",
              reason |-> "Policy evaluation failed"]
        ELSE [chunk_id |-> chunk.chunk_id, decision |-> DecisionOf(response.data),
              reason |-> IF Truthy(response.data.reason) THEN response.data.reason.v
                         ELSE "Policy evaluation"]

evaluatePolicy(user, chunk, fault) ==
    LET response == AxiosPost(pdpRequest(user, chunk), fault)
    IN  IF response.threw
        THEN [chunk_id |-> chunk.chunk_id, decision |-> "DENY",
              reason |-> "Policy evaluation failed"]
        ELSE [chunk_id |-> chunk.chunk_id, decision |-> DecisionOf(response.data),
              reason |-> IF Truthy(response.data.reason) THEN response.data.reason.v
                         ELSE "Policy evaluation"]

AllowedChunksNotDenied(cands, decisions) ==
    LET F[i \in 0..Len(cands)] ==
            IF i = 0 THEN <<>>
            ELSE IF decisions[i].decision # "DENY"
                 THEN Append(F[i - 1], cands[i])
                 ELSE F[i - 1]
    IN  F[Len(cands)]

\* the chunks pushed to allowedChunks by the decision loop
AllowedChunks(cands, decisions) ==
    LET F[i \in 0..Len(cands)] ==
            IF i = 0 THEN <<>>
            ELSE IF decisions[i].decision = "ALLOW"
                 THEN Append(F[i - 1], cands[i])
                 ELSE F[i - 1]
    IN  F[Len(cands)]

retrieveThresholdAfterLimit(rows, user, top_k, min_evidence_threshold, faults) ==
    LET preFilteredChunks == preFilterChunks(rows, user, top_k * 2)
        policyDecisions == [i \in 1..Len(preFilteredChunks) |->
                               evaluatePolicy(user, preFilteredChunks[i], faults[i])]
        allowedChunks == AllowedChunks(preFilteredChunks, policyDecisions)
    IN  [candidates |-> preFilteredChunks,
         chunks |-> Take(allowedChunks, top_k),
         evidence_count |-> Len(allowedChunks),
         policy_decisions |-> policyDecisions,
         redaction_applied |-> FALSE,
         insufficient_evidence |-> Len(Take(allowedChunks, top_k)) < min_evidence_threshold]

\* retrieve(request): the RetrievalResponse when the store answers
retrieve(rows, user, top_k, min_evidence_threshold, faults) ==
    LET preFilteredChunks == preFilterChunks(rows, user, top_k * 2)
        policyDecisions == [i \in 1..Len(preFilteredChunks) |->
                               evaluatePolicy(user, preFilteredChunks[i], faults[i])]
        allowedChunks == AllowedChunks(preFilteredChunks, policyDecisions)
    IN  [candidates |-> preFilteredChunks,
         chunks |-> Take(allowedChunks, top_k),
         evidence_count |-> Len(allowedChunks),
         policy_decisions |-> policyDecisions,
         redaction_applied |-> FALSE,
         insufficient_evidence |-> Len(allowedChunks) < min_evidence_threshold]

NoResult ==
    [candidates |-> <<>>, chunks |-> <<>>, evidence_count |-> 0,
     policy_decisions |-> <<>>, redaction_applied |-> FALSE,
     insufficient_evidence |-> FALSE]

(***************************************************************************)
(* Actions of the retrieval specification.                                 *)
(***************************************************************************)
NoCall == [op |-> "none", user |-> NoUser, top_k |-> 0,
           min_evidence_threshold |-> 0, faults |-> <<>>, threw |-> FALSE,
           result |-> NoResult]

RetrInit ==
    /\ chunks = <<>>
    /\ last = NoCall

\* the indexer stores one more chunk of a document of some tenant
AddChunk(label, tenant) ==
    /\ last.op = "none"
    /\ Len(chunks) < MaxChunks
    /\ chunks' = Append(chunks, [chunk_id |-> Len(chunks) + 1, label |-> label,
                                 tenant |-> tenant, source |-> "dropbox",
                                 owner_user_id |-> "alice@dash",
                                 created_at |-> Len(chunks) + 1])
    /\ UNCHANGED <<last, ledgerVars, sessVars>>

\* a call of GovernedRetriever.retrieve that gets its rows from the store
Retrieve(user, top_k, min_ev) ==
    LET n == Len(preFilterChunks(chunks, user, top_k * 2))
    IN  \E faults \in [1..n -> Faults] :
            /\ last.op = "none"
            /\ last' = [op |-> "retrieve", user |-> user, top_k |-> top_k,
                        min_evidence_threshold |-> min_ev, faults |-> faults,
                        threw |-> FALSE,
                        result |-> retrieve(chunks, user, top_k, min_ev, faults)]
            /\ UNCHANGED <<chunks, ledgerVars, sessVars>>

\* the pre-filter query fails: retrieve rethrows 'Retrieval failed'
RetrieveStoreDown(user, top_k, min_ev) ==
    /\ last.op = "none"
    /\ last' = [op |-> "retrieve", user |-> user, top_k |-> top_k,
                min_evidence_threshold |-> min_ev, faults |-> <<>>,
                threw |-> TRUE, result |-> NoResult]
    /\ UNCHANGED <<chunks, ledgerVars, sessVars>>

\* the caller has consumed the outcome of the call
Return ==
    /\ last.op # "none"
    /\ last' = NoCall
    /\ UNCHANGED <<chunks, ledgerVars, sessVars>>

(***************************************************************************)
(* The audit ledger.  Text is a sequence of tokens, so that concatenation  *)
(* and joining are computed as the code computes them.                     *)
(***************************************************************************)
MaxLedger == 3
MaxWriters == 2
MaxTampers == 1

NULL == <<"NULL">>

\* COALESCE(x, '') in SQL, (x || '') in JavaScript and what Array.join makes
\* of a null element
Coalesce(x) == IF x = NULL THEN <<>> ELSE x

\* event_id::text and the JavaScript string of a uuid
UuidText(n) == <<"uuid", ToString(n)>>

\* p_ts::text, e.g. 2024-01-15 10:30:00.123+00
PgTimestampText(t) == <<"pgts", ToString(t)>>

\* ts.toISOString(), e.g. 2024-01-15T10:30:00.123Z
toISOString(t) == <<"iso", ToString(t)>>

\* a JSON object is a sequence of <<key, value>> pairs, keys in stored order
RECURSIVE Members(_, _, _)
Members(m, colon, comma) ==
    IF m = <<>> THEN <<>>
    ELSE <<m[1][1]>> \o colon \o <<m[1][2]>>
         \o (IF Len(m) > 1 THEN comma ELSE <<>>)
         \o Members(Tail(m), colon, comma)

\* JSON.stringify(metadata): {"k":"v","k2":"v2"}
JSONstringify(m) == <<"{">> \o Members(m, <<":">>, <<",">>) \o <<"}">>

\* metadata::text of a jsonb value: {"k": "v", "k2": "v2"}
JsonbText(m) == <<"{">> \o Members(m, <<":", " ">>, <<",", " ">>) \o <<"}">>

RECURSIVE Join(_, _)
Join(parts, sep) ==
    IF parts = <<>> THEN <<>>
    ELSE IF Len(parts) = 1 THEN parts[1]
    ELSE parts[1] \o sep \o Join(Tail(parts), sep)

\* the hex digest of a text; distinct inputs give distinct digests
sha256(input) == <<"sha256(">> \o input \o <<")">>

calculate_audit_hash(p_event_id, p_ts, p_actor_user_id, p_action, p_object_id, p_object_type, p_policy_decision, p_reason, p_prev_hash, p_metadata) ==
    sha256(UuidText(p_event_id)
           \o PgTimestampText(p_ts)
           \o p_actor_user_id
           \o p_action
           \o Coalesce(p_object_id)
           \o Coalesce(p_object_type)
           \o p_policy_decision
           \o Coalesce(p_reason)
           \o Coalesce(p_prev_hash)
           \o JsonbText(p_metadata))

calculateHash(event) ==
    sha256(Join(<<UuidText(event.event_id),
                  toISOString(event.ts),
                  event.actor_user_id,
                  event.action,
                  Coalesce(event.object_id),
                  Coalesce(event.object_type),
                  event.policy_decision,
                  Coalesce(event.reason),
                  Coalesce(event.prev_hash),
                  JSONstringify(event.metadata)>>, <<"|">>))

\* SELECT hash FROM audit_events WHERE actor_user_id = $1
\* ORDER BY ts DESC LIMIT 1, on the committed rows
LatestHash(rows, actor) ==
    LET mine == {i \in 1..Len(rows) : rows[i].actor_user_id = actor}
    IN  IF mine = {} THEN NULL
        ELSE rows[CHOOSE i \in mine : \A j \in mine : rows[j].ts <= rows[i].ts].hash

\* the BEFORE INSERT trigger: prev_hash_val is what its SELECT returned
set_audit_hash(new, prev_hash_val) ==
    [new EXCEPT !.hash = calculate_audit_hash(new.event_id, new.ts,
                             new.actor_user_id, new.action, new.object_id,
                             new.object_type, new.policy_decision, new.reason,
                             prev_hash_val, new.metadata),
                !.prev_hash = prev_hash_val]

\* the BEFORE UPDATE OR DELETE trigger: TRUE iff it raises
prevent_audit_modificationUpdateOnly(TG_OP) == TG_OP = "UPDATE"

prevent_audit_modification(TG_OP) == TG_OP = "UPDATE" \/ TG_OP = "DELETE"

\* SELECT ... WHERE actor_user_id = $1 ORDER BY ts ASC
RECURSIVE SortByTs(_)
SortByTs(rows) ==
    IF rows = <<>> THEN <<>>
    ELSE LET i == CHOOSE k \in 1..Len(rows) : \A j \in 1..Len(rows) : rows[k].ts <= rows[j].ts
             rest == [k \in 1..(Len(rows) - 1) |-> IF k < i THEN rows[k] ELSE rows[k + 1]]
         IN  <<rows[i]>> \o SortByTs(rest)

EventsOf(rows, actor) ==
    LET Mine(r) == r.actor_user_id = actor
    IN  SortByTs(SelectSeq(rows, Mine))

BrokenLinks(events) ==
    {events[i].event_id : i \in {k \in 2..Len(events) : events[k].prev_hash # events[k - 1].hash}}

\* verifyChainIntegrity's test applied in place of the detailed one
verifyLinksOnly(events) ==
    [valid |-> BrokenLinks(events) = {},
     failed_events |-> {},
     broken_links |-> BrokenLinks(events)]

verifyDetailedChainIntegrity(events) ==
    LET failedEvents == {events[i].event_id :
                            i \in {k \in 1..Len(events) : calculateHash(events[k]) # events[k].hash}}
    IN  [valid |-> failedEvents = {} /\ BrokenLinks(events) = {},
         failed_events |-> failedEvents,
         broken_links |-> BrokenLinks(events)]

\* POST /lineage/verify
Verify(rows, user_id) ==
    LET events == EventsOf(rows, user_id)
    IN  IF Len(events) = 0
        THEN [valid |-> TRUE, failed_events |-> {}, broken_links |-> {}]
        ELSE verifyDetailedChainIntegrity(events)

UserIds == {"alice@dash", "bob@dash"}
Actors == {<<id>> : id \in UserIds}
Reasons == {NULL, <<"policy">>}
Metadata == {<<>>, << <<"request_id", "q1">> >>}
Statuses == {200, 403}
Writers == 1..MaxWriters
WormError == "Audit events cannot be modified or deleted (WORM behavior)"

NoRow ==
    [event_id |-> 0, ts |-> 0, actor_user_id |-> <<>>, action |-> <<>>,
     object_id |-> NULL, object_type |-> NULL, policy_decision |-> <<>>,
     reason |-> NULL, hash |-> NULL, prev_hash |-> NULL, metadata |-> <<>>]

Idle == [pc |-> "idle", new |-> NoRow, prev_hash_val |-> NULL]

LedgerInit ==
    /\ ledger = <<>>
    /\ pristine = <<>>
    /\ clock = 1
    /\ inflight = [w \in Writers |-> Idle]
    /\ dbError = ""
    /\ tampers = 0

Busy == {w \in Writers : inflight[w].pc # "idle"}

\* gen_random_uuid() and generateUUID(): an id no row or insert carries yet
FreshId ==
    LET used == {ledger[i].event_id : i \in 1..Len(ledger)}
                \cup {inflight[w].new.event_id : w \in Writers}
    IN  CHOOSE n \in 1..(Cardinality(used) + 1) : n \notin used

\* POST /lineage/event up to the INSERT statement
LineageEvent(w, actor_user_id, policy_decision, reason, metadata) ==
    /\ inflight[w].pc = "idle"
    /\ Len(ledger) + Cardinality(Busy) < MaxLedger
    /\ LET prevHash == LatestHash(ledger, actor_user_id)
           event == [event_id |-> FreshId, ts |-> clock,
                     actor_user_id |-> actor_user_id,
                     action |-> <<"QUERY_ISSUED">>,
                     object_id |-> NULL, object_type |-> <<"query">>,
                     policy_decision |-> policy_decision,
                     reason |-> reason, hash |-> NULL,
                     prev_hash |-> prevHash, metadata |-> metadata]
       IN  inflight' = [inflight EXCEPT ![w] =
                           [pc |-> "insert",
                            new |-> [event EXCEPT !.hash = calculateHash(event)],
                            prev_hash_val |-> NULL]]
    /\ clock' = clock + 1
    /\ UNCHANGED <<ledger, pristine, dbError, tampers, retrVars, sessVars>>

\* the INSERT statement starts: set_audit_hash reads the committed rows
InsertBegin(w) ==
    /\ inflight[w].pc = "insert"
    /\ inflight' = [inflight EXCEPT ![w] =
                       [pc |-> "commit",
                        new |-> inflight[w].new,
                        prev_hash_val |-> LatestHash(ledger, inflight[w].new.actor_user_id)]]
    /\ UNCHANGED <<ledger, pristine, clock, dbError, tampers, retrVars, sessVars>>

\* the routes of the gateway that run authenticateToken and auditLog
auditPath(user_id) == CASE user_id = "alice@dash" -> "/audit/alice@dash" [] user_id = "bob@dash" -> "/audit/bob@dash" [] user_id = "eve@hr" -> "/audit/eve@hr" [] OTHER -> "/audit/ghost@dash"

method(path) == IF path \in {"/search", "/auth/step-up", "/export"} THEN "POST" ELSE "GET"

\* req.method + ' ' + req.path
auditAction(path) == <<method(path), " ", path>>

auditDecision(statusCode) == IF statusCode >= 400 THEN <<"DENY">> ELSE <<"ALLOW">>

\* logAuditEvent of the gateway: the INSERT statement starts, with the
\* column defaults for event_id and ts
AuditInsert(w, userId, path, statusCode) ==
    /\ inflight[w].pc = "idle"
    /\ Len(ledger) + Cardinality(Busy) < MaxLedger
    /\ inflight' = [inflight EXCEPT ![w] =
          [pc |-> "commit",
           new |-> [event_id |-> FreshId, ts |-> clock,
                    actor_user_id |-> <<userId>>,
                    action |-> auditAction(path),
                    object_id |-> NULL, object_type |-> <<"api_request">>,
                    policy_decision |-> auditDecision(statusCode),
                    reason |-> <<"HTTP ", ToString(statusCode)>>,
                    hash |-> NULL, prev_hash |-> NULL,
                    metadata |-> << <<"ip", "::1">>, <<"path", path>>,
                                    <<"method", method(path)>>, <<"user_agent", "curl">>,
                                    <<"response_status", ToString(statusCode)>> >>],
           prev_hash_val |-> LatestHash(ledger, <<userId>>)]]
    /\ clock' = clock + 1
    /\ UNCHANGED <<ledger, pristine, dbError, tampers>>

\* an audit insert of the gateway arriving at the ledger
logAuditEvent(w, userId, path, statusCode) ==
    /\ AuditInsert(w, userId, path, statusCode)
    /\ UNCHANGED <<retrVars, sessVars>>

\* the INSERT statement commits the row the trigger returned
InsertCommit(w) ==
    /\ last.op = "none"
    /\ inflight[w].pc = "commit"
    /\ LET row == set_audit_hash(inflight[w].new, inflight[w].prev_hash_val)
       IN  /\ ledger' = Append(ledger, row)
           /\ pristine' = Append(pristine, row)
    /\ inflight' = [inflight EXCEPT ![w] = Idle]
    /\ dbError' = ""
    /\ UNCHANGED <<clock, tampers, retrVars, sessVars>>

\* UPDATE audit_events SET reason = ... WHERE event_id = ...
UpdateAttempt(i, reason) ==
    /\ i \in 1..Len(ledger)
    /\ IF prevent_audit_modification("UPDATE")
       THEN dbError' = WormError /\ UNCHANGED ledger
       ELSE dbError' = "" /\ ledger' = [ledger EXCEPT ![i].reason = reason]
    /\ UNCHANGED <<pristine, clock, inflight, tampers, retrVars, sessVars>>

\* DELETE FROM audit_events WHERE event_id = ...
DeleteAttempt(i) ==
    /\ i \in 1..Len(ledger)
    /\ IF prevent_audit_modification("DELETE")
       THEN dbError' = WormError /\ UNCHANGED ledger
       ELSE /\ dbError' = ""
            /\ ledger' = [k \in 1..(Len(ledger) - 1) |->
                             IF k < i THEN ledger[k] ELSE ledger[k + 1]]
    /\ UNCHANGED <<pristine, clock, inflight, tampers, retrVars, sessVars>>

TamperFields == {"reason", "policy_decision", "metadata", "action"}

TamperValues(field) ==
    CASE field = "reason" -> Reasons \cup {<<>>}
      [] field = "policy_decision" -> {<<"ALLOW">>, <<"DENY">>}
      [] field = "metadata" -> Metadata
      [] OTHER -> {<<"QUERY_ISSUED">>, <<"EXPORT">>}

\* a direct write to one column of a stored row with the guard disabled
Tamper(i, field, value) ==
    /\ i \in 1..Len(ledger)
    /\ tampers < MaxTampers
    /\ ledger[i][field] # value
    /\ ledger' = [ledger EXCEPT ![i][field] = value]
    /\ tampers' = tampers + 1
    /\ UNCHANGED <<pristine, clock, inflight, dbError, retrVars, sessVars>>

(***************************************************************************)
(* The gateway: sessions, step-up and /search.                             *)
(***************************************************************************)
TTL == 300
TickSeconds == 100
MaxTime == 300
MaxPending == 1
MaxTimers == 2

\* the identities table as seeded
identities ==
    {MkUser("alice@dash", {"eng"}, Str("internal"), Bool("false"), Bool("true"), TENANT),
     MkUser("bob@dash", {"eng", "security"}, Str("confidential"), Bool("false"), Bool("true"), TENANT),
     MkUser("eve@hr", {"hr"}, Str("confidential"), Bool("false"), Bool("false"), TENANT)}

getUser(userId) ==
    IF \E u \in identities : u.user_id = userId
    THEN CHOOSE u \in identities : u.user_id = userId
    ELSE NoUser

Tokens == {"none", "invalid", "bob@dash"}
BodyUserIds == UserIds \cup {"ghost@dash"}
GatewayLabels == {"Public", "Confidential"}
GatewayFaults == {"none", "unreachable"}

\* authenticateToken: the status it answers with, 0 when it calls next()
authenticateToken(token) ==
    IF token = "none" THEN 401
    ELSE IF token = "invalid" THEN 403
    ELSE 0

sessionKey(user_id) == <<"mfa:", user_id>>

\* sessionStore.get(sessionKey) || false
mfaSatisfied(store, user_id) ==
    IF sessionKey(user_id) \in store THEN Bool("true") ELSE Bool("false")

userObj(user, mfa) ==
    [user_id |-> user.user_id, groups |-> user.groups,
     attrs |-> [user.attrs EXCEPT !.mfa_satisfied = mfa],
     tenant |-> TENANT]

\* the texts a /search answer can carry in its response field
Watermark == "Insufficient governed evidence to provide a reliable answer."

\* synthesizeResponse: the text, the sources and the insufficient_evidence
\* flag (every similarity is 0.8, so the sort keeps the order)
synthesize(cs) ==
    IF Len(cs) = 0
    THEN [response |-> "No relevant information found for your query.", sources |-> <<>>, insufficient_evidence |-> TRUE]
    ELSE IF Len(cs) < 2
    THEN [response |-> "Insufficient governed evidence to provide a reliable answer. Please refine your query or contact support for assistance.",
          sources |-> [i \in 1..Len(cs) |-> cs[i].chunk_id],
          insufficient_evidence |-> TRUE]
    ELSE [response |-> "Based on the available information:",
          sources |-> [i \in 1..Len(cs) |-> cs[i].chunk_id],
          insufficient_evidence |-> FALSE]

\* the body of the answer of /search to a retrieval result
searchResponse(r) ==
    IF r.insufficient_evidence
    THEN [response |-> Watermark, sources |-> <<>>, insufficient_evidence |-> TRUE]
    ELSE synthesize(r.chunks)

GatewayCall(op, token, user_id, user, top_k, faults, status, result, body) ==
    [op |-> op, token |-> token, user_id |-> user_id, user |-> user,
     top_k |-> top_k, min_evidence_threshold |-> 2, faults |-> faults,
     threw |-> FALSE, status |-> status, result |-> result,
     response |-> body.response,
     sources |-> body.sources,
     insufficient_evidence |-> body.insufficient_evidence]

NoBody == [response |-> "", sources |-> <<>>, insufficient_evidence |-> FALSE]

\* the auditLog middleware: res.send schedules logAuditEvent
AuditRoom ==
    /\ Len(immediates) < MaxPending
    /\ Len(ledger) + Len(immediates) + Cardinality(Busy) < MaxLedger

auditLog(token, path, statusCode) ==
    immediates' = Append(immediates, [userId |-> token, path |-> path,
                                      statusCode |-> statusCode])

\* POST /search
Search(token, user_id, top_k) ==
    /\ last.op = "none"
    /\ IF authenticateToken(token) # 0
       THEN /\ last' = GatewayCall("search", token, user_id, NoUser, top_k, <<>>,
                                   authenticateToken(token), NoResult, NoBody)
            /\ UNCHANGED immediates
       ELSE /\ AuditRoom
            /\ IF getUser(user_id) = NoUser
               THEN /\ last' = GatewayCall("search", token, user_id, NoUser, top_k,
                                           <<>>, 404, NoResult, NoBody)
                    /\ auditLog(token, "/search", 404)
               ELSE LET user == userObj(getUser(user_id), mfaSatisfied(sessionStore, user_id))
                        n == Len(preFilterChunks(chunks, user, top_k * 2))
                    IN  \E faults \in [1..n -> GatewayFaults] :
                           LET r == retrieve(chunks, user, top_k, 2, faults)
                           IN  /\ last' = GatewayCall("search", token, user_id, user,
                                                      top_k, faults, 200, r,
                                                      searchResponse(r))
                               /\ auditLog(token, "/search", 200)
    /\ UNCHANGED <<chunks, ledgerVars, sessionStore, timers, now, sourceRegistry>>

\* POST /search from its call of retriever.retrieve on, for a user object
\* whose attributes the decision point accepts
SearchAnswer(user, top_k) ==
    LET n == Len(preFilterChunks(chunks, user, top_k * 2))
    IN  \E faults \in [1..n -> GatewayFaults] :
            /\ last.op = "none"
            /\ last' = GatewayCall("search", user.user_id, user.user_id, user,
                                   top_k, faults, 200,
                                   retrieve(chunks, user, top_k, 2, faults),
                                   searchResponse(retrieve(chunks, user, top_k, 2, faults)))
            /\ UNCHANGED <<chunks, ledgerVars, sessVars>>

\* POST /auth/step-up
StepUp(token, user_id) ==
    /\ last.op = "none"
    /\ IF authenticateToken(token) # 0
       THEN /\ last' = GatewayCall("step-up", token, user_id, NoUser, 0, <<>>,
                                   authenticateToken(token), NoResult, NoBody)
            /\ UNCHANGED <<sessionStore, timers, immediates>>
       ELSE /\ AuditRoom
            /\ Cardinality(timers) < MaxTimers
            /\ sessionStore' = sessionStore \cup {sessionKey(user_id)}
            /\ timers' = timers \cup {[key |-> sessionKey(user_id), set_at |-> now]}
            /\ last' = GatewayCall("step-up", token, user_id, NoUser, 0, <<>>,
                                   200, NoResult, NoBody)
            /\ auditLog(token, "/auth/step-up", 200)
    /\ UNCHANGED <<chunks, ledgerVars, now, sourceRegistry>>

Due(timer) == now >= timer.set_at + TTL

\* the callback given to setTimeout runs
Timeout(timer) ==
    /\ last.op = "none"
    /\ timer \in timers
    /\ Due(timer)
    /\ sessionStore' = sessionStore \ {timer.key}
    /\ timers' = timers \ {timer}
    /\ UNCHANGED <<retrVars, ledgerVars, now, immediates, sourceRegistry>>

\* time passes; callbacks that are due run before it passes further
Tick ==
    /\ last.op = "none"
    /\ now + TickSeconds <= MaxTime
    /\ \A timer \in timers : ~Due(timer)
    /\ now' = now + TickSeconds
    /\ UNCHANGED <<retrVars, ledgerVars, sessionStore, timers, immediates, sourceRegistry>>

\* the callback given to setImmediate runs logAuditEvent
auditLogCallback(w) ==
    /\ last.op = "none"
    /\ immediates # <<>>
    /\ AuditInsert(w, Head(immediates).userId, Head(immediates).path,
                   Head(immediates).statusCode)
    /\ immediates' = Tail(immediates)
    /\ UNCHANGED <<retrVars, sessionStore, timers, now, sourceRegistry>>

\* the requests sent to /export and /audit: bearer tokens, and the user_id
\* of the body or of the path ("" when the body carries none)
ExportTokens == {"none", "invalid", "bob@dash", "eve@hr"}

\* ExportRequestSchema.parse: user_id is a required string
ExportRequestSchema(user_id) == user_id # ""

EndpointCall(op, token, user_id, status, events) ==
    [op |-> op, token |-> token, user_id |-> user_id, user |-> NoUser,
     top_k |-> 0, min_evidence_threshold |-> 0, faults |-> <<>>,
     threw |-> FALSE, status |-> status, result |-> NoResult,
     events |-> events]

\* if (!user.attributes.allow_export)
exportDenied(user) == ~Truthy(user.attrs.allow_export)

\* the row of the awaited INSERT of /export, as its trigger stores it
exportDeniedRow(user_id) ==
    set_audit_hash([event_id |-> FreshId, ts |-> clock,
                    actor_user_id |-> <<user_id>>,
                    action |-> <<"EXPORT_DENIED">>,
                    object_id |-> NULL, object_type |-> <<"export_request">>,
                    policy_decision |-> <<"DENY">>,
                    reason |-> <<"User lacks export permissions">>,
                    hash |-> NULL, prev_hash |-> NULL, metadata |-> <<>>],
                   LatestHash(ledger, <<user_id>>))

\* POST /export
Export(token, user_id) ==
    /\ last.op = "none"
    /\ IF authenticateToken(token) # 0
       THEN /\ last' = EndpointCall("export", token, user_id, authenticateToken(token), <<>>)
            /\ UNCHANGED <<immediates, ledger, pristine, clock>>
       ELSE /\ AuditRoom
            /\ IF ~ExportRequestSchema(user_id)
               THEN /\ last' = EndpointCall("export", token, user_id, 500, <<>>)
                    /\ auditLog(token, "/export", 500)
                    /\ UNCHANGED <<ledger, pristine, clock>>
               ELSE IF getUser(user_id) = NoUser
               THEN /\ last' = EndpointCall("export", token, user_id, 404, <<>>)
                    /\ auditLog(token, "/export", 404)
                    /\ UNCHANGED <<ledger, pristine, clock>>
               ELSE IF exportDenied(getUser(user_id))
               THEN /\ Len(ledger) + Len(immediates) + Cardinality(Busy) + 1 < MaxLedger
                    /\ ledger' = Append(ledger, exportDeniedRow(user_id))
                    /\ pristine' = Append(pristine, exportDeniedRow(user_id))
                    /\ clock' = clock + 1
                    /\ last' = EndpointCall("export", token, user_id, 403, <<>>)
                    /\ auditLog(token, "/export", 403)
               ELSE /\ last' = EndpointCall("export", token, user_id, 200, <<>>)
                    /\ auditLog(token, "/export", 200)
                    /\ UNCHANGED <<ledger, pristine, clock>>
    /\ UNCHANGED <<chunks, inflight, dbError, tampers, sessionStore, timers, now, sourceRegistry>>

\* parseInt(req.query.limit) || 100
AuditLimit == 100

\* GET /audit/:user_id
AuditRead(token, user_id) ==
    /\ last.op = "none"
    /\ IF authenticateToken(token) # 0
       THEN /\ last' = EndpointCall("audit", token, user_id, authenticateToken(token), <<>>)
            /\ UNCHANGED immediates
       ELSE /\ AuditRoom
            /\ last' = EndpointCall("audit", token, user_id, 200,
                                    Take(Reverse(EventsOf(ledger, <<user_id>>)), AuditLimit))
            /\ auditLog(token, auditPath(user_id), 200)
    /\ UNCHANGED <<chunks, ledgerVars, sessionStore, timers, now, sourceRegistry>>

(***************************************************************************)
(* Redaction.  A text is a sequence of characters; the four patterns are   *)
(* matched as the JavaScript regular expressions match them.               *)
(***************************************************************************)
MaxSegments == 3

DigitChars == {"0", "1", "2", "3", "4", "5", "6", "7", "8", "9"}

\* the letters that occur in the texts drawn below and in the masks
LetterChars == {"a", "b", "c", "o", "x", "X"}

\* \w
IsWord(c) == c \in DigitChars \cup LetterChars \cup {"_"}

At(t, i) == IF i \in 1..Len(t) THEN t[i] ELSE ""

\* \b before the character at index p
WordBoundary(t, p) == IsWord(At(t, p - 1)) # IsWord(At(t, p))

Digit(t, i) == At(t, i) \in DigitChars

D3(t, q) == Digit(t, q) /\ Digit(t, q + 1) /\ Digit(t, q + 2)

\* x? for a one-character x: the index after it
Opt(t, q, set) == IF At(t, q) \in set THEN q + 1 ELSE q

RECURSIVE RunEnd(_, _, _)
RunEnd(t, q, class) == IF At(t, q) \in class THEN RunEnd(t, q + 1, class) ELSE q

Max(S) == CHOOSE x \in S : \A y \in S : y <= x

\* Each pattern gives the index after its match starting at index p, 0 when
\* it has no match there.
\* /\b(?!000|666)[0-8][0-9]{2}-?(?!00)[0-9]{2}-?(?!0000)[0-9]{4}\b/
ssn(t, p) ==
    LET a == Opt(t, p + 3, {"-"})
        b == Opt(t, a + 2, {"-"})
    IN  IF /\ WordBoundary(t, p)
           /\ ~(At(t, p) = "0" /\ At(t, p + 1) = "0" /\ At(t, p + 2) = "0")
           /\ ~(At(t, p) = "6" /\ At(t, p + 1) = "6" /\ At(t, p + 2) = "6")
           /\ At(t, p) \in DigitChars \ {"9"}
           /\ Digit(t, p + 1) /\ Digit(t, p + 2)
           /\ ~(At(t, a) = "0" /\ At(t, a + 1) = "0")
           /\ Digit(t, a) /\ Digit(t, a + 1)
           /\ ~(At(t, b) = "0" /\ At(t, b + 1) = "0" /\ At(t, b + 2) = "0" /\ At(t, b + 3) = "0")
           /\ D3(t, b) /\ Digit(t, b + 3)
           /\ WordBoundary(t, b + 4)
        THEN b + 4 ELSE 0

\* the end of \.[A-Z|a-z]{2,}\b for the dot at index q
TldEnd(t, q) ==
    LET ends == {y \in (q + 3)..RunEnd(t, q + 1, LetterChars \cup {"|"}) : WordBoundary(t, y)}
    IN  IF At(t, q) = "." /\ ends # {} THEN Max(ends) ELSE 0

\* /\b[A-Za-z0-9._%+-]+@[A-Za-z0-9.-]+\.[A-Z|a-z]{2,}\b/
email(t, p) ==
    LET a == RunEnd(t, p, DigitChars \cup LetterChars \cup {".", "_", "%", "+", "-"})
        e == RunEnd(t, a + 1, DigitChars \cup LetterChars \cup {".", "-"})
        dots == {q \in (a + 2)..(e - 1) : TldEnd(t, q) > 0}
    IN  IF WordBoundary(t, p) /\ a > p /\ At(t, a) = "@" /\ dots # {}
        THEN TldEnd(t, Max(dots)) ELSE 0

PhoneSeps == {"-", ".", " "}

\* ([0-9]{3})[-. ]?([0-9]{4})\b
phoneRest(t, q) ==
    LET r == Opt(t, q + 3, PhoneSeps)
    IN  IF D3(t, q) /\ D3(t, r) /\ Digit(t, r + 3) /\ WordBoundary(t, r + 4) THEN r + 4 ELSE 0

\* /\b(?:\(?([0-9]{3})\)?[-. ]?)?([0-9]{3})[-. ]?([0-9]{4})\b/
phone(t, p) ==
    LET q0 == Opt(t, p, {"("})
        q1 == Opt(t, q0 + 3, {")"})
        q2 == Opt(t, q1, PhoneSeps)
        withArea == IF D3(t, q0) THEN phoneRest(t, q2) ELSE 0
    IN  IF ~WordBoundary(t, p) THEN 0
        ELSE IF withArea > 0 THEN withArea
        ELSE phoneRest(t, p)

\* (?:\d[ -]*?){13,19}\b from the k-th digit, at index q, on
RECURSIVE PanEnd(_, _, _)
PanEnd(t, q, k) ==
    IF Digit(t, q + 1)
    THEN IF k < 19 THEN PanEnd(t, q + 1, k + 1) ELSE 0
    ELSE IF k >= 13
    THEN IF WordBoundary(t, q + 1) THEN q + 1 ELSE 0
    ELSE IF Digit(t, RunEnd(t, q + 1, {" ", "-"}))
    THEN PanEnd(t, RunEnd(t, q + 1, {" ", "-"}), k + 1)
    ELSE 0

\* /\b(?:\d[ -]*?){13,19}\b/
pan(t, p) == IF WordBoundary(t, p) /\ Digit(t, p) THEN PanEnd(t, p, 1) ELSE 0

MatchEnd(patternId, t, p) ==
    CASE patternId = "ssn" -> ssn(t, p)
      [] patternId = "email" -> email(t, p)
      [] patternId = "phone" -> phone(t, p)
      [] patternId = "pan" -> pan(t, p)

\* the two services: the redactor of the gateway and the redaction library
\* with its default configuration
patterns(service) == IF service = "gateway" THEN <<"ssn", "email", "phone", "pan">> ELSE <<"ssn", "pan", "email">>

applyMasking(service, found, patternId) ==
    CASE patternId = "ssn" -> <<"X", "X", "X", "-", "X", "X", "-", "X", "X", "X", "X">>
      [] patternId = "email" -> <<"*", "*", "*", "@", "*", "*", "*", ".", "*", "*", "*">>
      [] patternId = "phone" -> <<"(", "X", "X", "X", ")", " ", "X", "X", "X", "-", "X", "X", "X", "X">>
      [] patternId = "pan" /\ service = "gateway" -> <<"*", "*", "*", "*", "-", "*", "*", "*", "*", "-", "*", "*", "*", "*", "-", "X", "X", "X", "X">>
      [] patternId = "pan" /\ service = "library" -> IF Len(found) <= 4 THEN <<"X", "X", "X", "X">> ELSE <<"X", "X", "X", "X", "-">> \o SubSeq(found, Len(found) - 3, Len(found))

\* regex.exec(maskedText) of a global expression: the search starts at
\* lastIndex; TRUE iff it finds a match
exec(patternId, t, lastIndex) == \E p \in (lastIndex + 1)..Len(t) : MatchEnd(patternId, t, p) > 0

\* maskedText.replace(regex, ...) of a global expression, from index p on
RECURSIVE replace(_, _, _, _)
replace(service, patternId, t, p) ==
    IF p > Len(t) THEN <<>>
    ELSE IF MatchEnd(patternId, t, p) > 0
    THEN applyMasking(service, SubSeq(t, p, MatchEnd(patternId, t, p) - 1), patternId)
         \o replace(service, patternId, t, MatchEnd(patternId, t, p))
    ELSE <<t[p]>> \o replace(service, patternId, t, p + 1)

NoLastIndex == [patternId \in {"ssn", "email", "phone", "pan"} |-> 0]

\* the loop of maskPII over the patterns ids, in the order of the Map
RECURSIVE maskLoop(_, _, _)
maskLoop(service, ids, r) ==
    IF ids = <<>> THEN r
    ELSE IF exec(Head(ids), r.text, r.lastIndex[Head(ids)])
    THEN maskLoop(service, Tail(ids),
                  [text |-> replace(service, Head(ids), r.text, 1),
                   redaction_applied |-> TRUE,
                   patterns_matched |-> Append(r.patterns_matched, Head(ids)),
                   lastIndex |-> [r.lastIndex EXCEPT ![Head(ids)] = 0]])
    ELSE maskLoop(service, Tail(ids), [r EXCEPT !.lastIndex[Head(ids)] = 0])

\* RedactionService.maskPII on an instance whose expressions have the given
\* lastIndex values
maskPII(service, text, classification, lastIndex) ==
    LET r == [text |-> text, redaction_applied |-> FALSE, patterns_matched |-> <<>>,
              lastIndex |-> lastIndex]
    IN  IF classification \in (IF service = "gateway" THEN {"Internal", "Confidential", "Regulated"} ELSE {"Internal", "Confidential"})
        THEN maskLoop(service, patterns(service), r) ELSE r

\* the pieces the texts are put together from
Segments ==
    { <<"1", "2", "3", "-", "4", "5", "-", "6", "7", "8", "9">>,
      <<"1", "2", "3", "4", "5", "6", "7", "8", "9", "0", "1", "2", "3">>,
      <<"9", "8", "7", "6", "5", "4", "3", "2", "1">>,
      <<"4", "1", "1", "1", " ", "1", "1", "1", "1", " ", "1", "1", "1", "1", " ", "1", "1", "1", "1">>,
      <<"a", "@", "b", ".", "c", "o">>,
      <<"5", "5", "5", "-", "1", "2", "3", "4">>,
      <<"(", "5", "5", "5", ")", " ", "1", "2", "3", "-", "4", "5", "6", "7">>,
      <<" ">>, <<"-">>, <<"x">>, <<"@">>, <<".">> }

RECURSIVE Concat(_)
Concat(segs) == IF segs = <<>> THEN <<>> ELSE Head(segs) \o Concat(Tail(segs))

Texts == {Concat(segs) : segs \in UNION {[1..n -> Segments] : n \in 0..MaxSegments}}

\* two calls of maskPII in a row on the shared redactionService, the second
\* one on the text the first one returned
MaskPII(service, text, classification) ==
    /\ last.op = "none"
    /\ last' = [op |-> "maskPII", service |-> service, text |-> text,
                classification |-> classification,
                user |-> NoUser, top_k |-> 0, min_evidence_threshold |-> 0,
                faults |-> <<>>, threw |-> FALSE, result |-> NoResult,
                once |-> maskPII(service, text, classification, NoLastIndex),
                twice |-> maskPII(service, maskPII(service, text, classification, NoLastIndex).text,
                                  classification,
                                  maskPII(service, text, classification, NoLastIndex).lastIndex)]
    /\ UNCHANGED <<chunks, ledgerVars, sessVars>>

SessInit ==
    /\ sessionStore = {}
    /\ timers = {}
    /\ now = 0
    /\ immediates = <<>>
    /\ sourceRegistry = <<>>

Init == RetrInit /\ LedgerInit /\ SessInit

Next ==
    \/ Return
    \/ \E label \in Labels, tenant \in Tenants : AddChunk(label, tenant)
    \/ \E user \in RetrieverUsers, top_k \in 1..MaxTopK, min_ev \in 1..MaxMinEvidence :
          Retrieve(user, top_k, min_ev)
    \/ \E user \in RetrieverUsers, top_k \in 1..MaxTopK, min_ev \in 1..MaxMinEvidence :
          RetrieveStoreDown(user, top_k, min_ev)

Spec == Init /\ [][Next]_vars

\* the ledger with its writes executed one at a time
NextLedger ==
    \/ \E actor \in Actors, reason \in Reasons, metadata \in Metadata :
          LineageEvent(1, actor, <<"ALLOW">>, reason, metadata)
    \/ InsertBegin(1)
    \/ \E userId \in UserIds, statusCode \in Statuses :
          logAuditEvent(1, userId, "/search", statusCode)
    \/ InsertCommit(1)
    \/ \E i \in 1..MaxLedger, reason \in Reasons : UpdateAttempt(i, reason)
    \/ \E i \in 1..MaxLedger : DeleteAttempt(i)

SpecLedger == Init /\ [][NextLedger]_vars

\* the ledger with a write that bypasses the guard
NextTamper ==
    \/ \E actor \in Actors, metadata \in Metadata :
          LineageEvent(1, actor, <<"ALLOW">>, NULL, metadata)
    \/ InsertBegin(1)
    \/ \E userId \in UserIds : logAuditEvent(1, userId, "/search", 200)
    \/ InsertCommit(1)
    \/ \E i \in 1..MaxLedger, field \in TamperFields :
          \E value \in TamperValues(field) : Tamper(i, field, value)

SpecTamper == Init /\ [][NextTamper]_vars

\* the ledger with concurrent writers
NextConc ==
    \/ \E w \in Writers, actor \in Actors : LineageEvent(w, actor, <<"ALLOW">>, NULL, <<>>)
    \/ \E w \in Writers : InsertBegin(w)
    \/ \E w \in Writers, userId \in UserIds : logAuditEvent(w, userId, "/search", 200)
    \/ \E w \in Writers : InsertCommit(w)

SpecConc == Init /\ [][NextConc]_vars

\* the answers /search composes from retrieval results
NextCompose ==
    \/ Return
    \/ \E label \in Labels : AddChunk(label, TENANT)
    \/ \E user \in RetrieverUsers, top_k \in 1..MaxTopK : SearchAnswer(user, top_k)

SpecCompose == Init /\ [][NextCompose]_vars

\* the scenario store of the seed script: fragments of tenant dash, one
\* label each, up to MaxScenarioChunks of them
MaxScenarioChunks == 4

ScenarioTopK == 10

Clearances == {"public", "internal", "confidential", "regulated"}

\* subjects that differ in nothing but their clearance
Subject(clearance, mfa) == MkUser("s@dash", {"eng"}, Str(clearance), mfa, Undef, TENANT)

alice(mfa) == MkUser("alice@dash", {"eng"}, Str("internal"), mfa, Undef, TENANT)

sam(mfa) == MkUser("sam@legal", {"legal"}, Str("regulated"), mfa, Undef, TENANT)

IndexChunk(label) ==
    /\ last.op = "none"
    /\ Len(chunks) < MaxScenarioChunks
    /\ chunks' = Append(chunks, [chunk_id |-> Len(chunks) + 1, label |-> label,
                                 tenant |-> TENANT, source |-> "dropbox",
                                 owner_user_id |-> "alice@dash",
                                 created_at |-> Len(chunks) + 1])
    /\ UNCHANGED <<last, ledgerVars, sessVars>>

Reachable(rows, user, top_k) == [i \in 1..Len(preFilterChunks(rows, user, top_k * 2)) |-> "none"]

\* the same query sent for two subjects against the same store, the policy
\* decision point answering every call
RetrievePair(s1, s2, top_k, min_ev) ==
    /\ last.op = "none"
    /\ last' = [op |-> "pair", user |-> s1, user2 |-> s2, top_k |-> top_k,
                min_evidence_threshold |-> min_ev, faults |-> <<>>,
                threw |-> FALSE,
                result |-> retrieve(chunks, s1, top_k, min_ev, Reachable(chunks, s1, top_k)),
                result2 |-> retrieve(chunks, s2, top_k, min_ev, Reachable(chunks, s2, top_k))]
    /\ UNCHANGED <<chunks, ledgerVars, sessVars>>

NextScenario ==
    \/ Return
    \/ \E label \in Labels : IndexChunk(label)
    \/ \E c1 \in Clearances, c2 \in Clearances, mfa \in {Undef, Str("true")}, top_k \in (1..MaxTopK) \cup {ScenarioTopK} :
          RetrievePair(Subject(c1, mfa), Subject(c2, mfa), top_k, 1)
    \/ \E mfa \in {Undef, Str("true")}, top_k \in (1..MaxTopK) \cup {ScenarioTopK} :
          RetrievePair(alice(mfa), sam(mfa), top_k, 1)

SpecScenario == Init /\ [][NextScenario]_vars

\* the export and the audit trail endpoints of the gateway
NextExport ==
    \/ Return
    \/ \E token \in ExportTokens, user_id \in {"", "bob@dash", "eve@hr", "ghost@dash"} : Export(token, user_id)
    \/ \E token \in ExportTokens, user_id \in {"bob@dash", "eve@hr"} : AuditRead(token, user_id)
    \/ auditLogCallback(1)
    \/ InsertCommit(1)

SpecExport == Init /\ [][NextExport]_vars

\* a chunk stored with the created_at its INSERT statement got from NOW():
\* the value of the chunk stored before it, or a later one
StoreChunk(label, later) ==
    /\ last.op = "none"
    /\ Len(chunks) < MaxChunks
    /\ chunks' = Append(chunks, [chunk_id |-> Len(chunks) + 1, label |-> label,
                                 tenant |-> TENANT, source |-> "dropbox",
                                 owner_user_id |-> "alice@dash",
                                 created_at |-> IF chunks = <<>> THEN 1
                                                ELSE chunks[Len(chunks)].created_at + later])
    /\ UNCHANGED <<last, ledgerVars, sessVars>>

\* the orders in which the store may hand out the rows for ORDER BY
\* c.created_at: rows with equal created_at come in any order
Enumerations(rows) ==
    LET n == Len(rows)
        perms == {f \in [1..n -> 1..n] : \A i, j \in 1..n : f[i] = f[j] => i = j}
    IN  {[i \in 1..n |-> rows[f[i]]] : f \in {g \in perms : \A i, j \in 1..n : i < j => rows[g[i]].created_at <= rows[g[j]].created_at}}

\* the same query of the same subject run twice against the same store
RetrieveTwice(user, top_k) ==
    /\ last.op = "none"
    /\ \E rows1 \in Enumerations(chunks), rows2 \in Enumerations(chunks) :
          last' = [op |-> "twice", user |-> user, top_k |-> top_k,
                   min_evidence_threshold |-> 1, faults |-> <<>>, threw |-> FALSE,
                   result |-> retrieve(rows1, user, top_k, 1, Reachable(rows1, user, top_k)),
                   result2 |-> retrieve(rows2, user, top_k, 1, Reachable(rows2, user, top_k))]
    /\ UNCHANGED <<chunks, ledgerVars, sessVars>>

NextOrder ==
    \/ Return
    \/ \E label \in Labels, later \in 0..1 : StoreChunk(label, later)
    \/ \E user \in RetrieverUsers, top_k \in 1..MaxTopK : RetrieveTwice(user, top_k)

SpecOrder == Init /\ [][NextOrder]_vars

\* the 2xx bodies the AuthorizationResponse of POST /authorize admits
Replies ==
    {[allow |-> Bool(a), step_up_required |-> Bool(r), reason |-> IF a = "true" THEN Str("Access granted") ELSE Str("Access denied by policy")] : a \in {"true", "false"}, r \in {"true", "false"}}

\* evaluatePolicy on a 2xx reply of the engine
EvaluateReply(user, label, data) ==
    /\ last.op = "none"
    /\ last' = [op |-> "evaluatePolicy", user |-> user, label |-> label, data |-> data,
                decision |-> DecisionOf(data)]
    /\ UNCHANGED <<chunks, ledgerVars, sessVars>>

NextAdapter ==
    \/ Return
    \/ \E user \in RetrieverUsers, label \in Labels, data \in Replies : EvaluateReply(user, label, data)

SpecAdapter == Init /\ [][NextAdapter]_vars

\* the policy stage of retrieve on a stored chunk taken as candidate,
\* whatever the pre-filter does with it
EvaluateCandidate(user, fault) ==
    /\ last.op = "none"
    /\ \E i \in 1..Len(chunks) :
          last' = [op |-> "evaluateCandidate", user |-> user, row |-> chunks[i],
                   request |-> pdpRequest(user, RowToChunk(chunks[i])),
                   decision |-> evaluatePolicy(user, RowToChunk(chunks[i]), fault)]
    /\ UNCHANGED <<chunks, ledgerVars, sessVars>>

NextPolicy ==
    \/ Return
    \/ \E label \in Labels, tenant \in Tenants : AddChunk(label, tenant)
    \/ \E user \in RetrieverUsers, fault \in Faults : EvaluateCandidate(user, fault)

SpecPolicy == Init /\ [][NextPolicy]_vars

\* audit records of the audit_events table: the NOT NULL columns hold a
\* text, the nullable ones NULL or a text, the empty one included
AuditRecords ==
    [event_id : {1, 2}, ts : {1}, actor_user_id : {<<"alice@dash">>},
     action : {<<"QUERY">>, <<"QUERY", "_">>},
     object_id : {NULL},
     object_type : {NULL, <<>>, <<"_", "chunk">>, <<"chunk">>},
     policy_decision : {<<"ALLOW">>},
     reason : {NULL, <<>>, <<"ok">>},
     prev_hash : {NULL, <<"ok">>},
     metadata : {<<>>}]

\* the hashes of two audit records, by the trigger's function and by the
\* lineage service
HashPair(e1, e2) ==
    /\ last.op = "none"
    /\ last' = [op |-> "hashPair", e1 |-> e1, e2 |-> e2,
                sql1 |-> calculate_audit_hash(e1.event_id, e1.ts, e1.actor_user_id, e1.action, e1.object_id, e1.object_type, e1.policy_decision, e1.reason, e1.prev_hash, e1.metadata),
                sql2 |-> calculate_audit_hash(e2.event_id, e2.ts, e2.actor_user_id, e2.action, e2.object_id, e2.object_type, e2.policy_decision, e2.reason, e2.prev_hash, e2.metadata),
                js1 |-> calculateHash(e1),
                js2 |-> calculateHash(e2)]
    /\ UNCHANGED <<chunks, ledgerVars, sessVars>>

NextHash ==
    \/ Return
    \/ \E e1 \in AuditRecords, e2 \in AuditRecords : HashPair(e1, e2)

SpecHash == Init /\ [][NextHash]_vars

(***************************************************************************)
(* The federation service (federation/src/index.ts).                       *)
(***************************************************************************)
\* the rows of identities the service can load: the seeded ones and one
\* whose attributes are all texts
federationIdentities ==
    identities \cup {MkUser("carol@dash", {"eng"}, Str("confidential"), Undef, Undef, TENANT)}

FederationUserIds == {"bob@dash", "carol@dash", "ghost@dash"}
SourceIds == {"dropbox", "partner"}
SourceTypes == {"local", "remote_api", "s3"}
SourceLists == {<<>>, <<"dropbox">>, <<"partner">>, <<"partner", "dropbox">>, <<"ghost">>}

registered(sourceId) == \E i \in 1..Len(sourceRegistry) : sourceRegistry[i].source_id = sourceId

\* POST /federation/sources/register: sourceRegistry.set keeps the place of a
\* key that is already there
RegisterSource(source_id, source_type) ==
    /\ last.op = "none"
    /\ LET source == [source_id |-> source_id, source_type |-> source_type, enabled |-> TRUE]
       IN  sourceRegistry' =
               IF registered(source_id)
               THEN [i \in 1..Len(sourceRegistry) |->
                        IF sourceRegistry[i].source_id = source_id THEN source
                        ELSE sourceRegistry[i]]
               ELSE Append(sourceRegistry, source)
    /\ UNCHANGED <<retrVars, ledgerVars, sessionStore, timers, now, immediates>>

\* POST /federation/sources/:sourceId/disable, 404 for an unknown source
DisableSource(sourceId) ==
    /\ last.op = "none"
    /\ sourceRegistry' =
           [i \in 1..Len(sourceRegistry) |->
               IF sourceRegistry[i].source_id = sourceId
               THEN [sourceRegistry[i] EXCEPT !.enabled = FALSE]
               ELSE sourceRegistry[i]]
    /\ UNCHANGED <<retrVars, ledgerVars, sessionStore, timers, now, immediates>>

\* the chunks a remote source answers with; similarity in hundredths
RemoteChunks ==
    <<[chunk_id |-> 9, label |-> "Confidential", source |-> "partner",
       owner_user_id |-> "alice@dash", similarity |-> 90]>>

\* WHERE d.source = $1 AND d.tenant = $2 ORDER BY c.created_at DESC LIMIT $3,
\* with 0.8 as similarity
queryLocalSource(sourceId, rows, top_k) ==
    LET Match(row) == row.source = sourceId /\ row.tenant = TENANT
        selected == Take(Reverse(SelectSeq(rows, Match)), top_k)
    IN  [i \in 1..Len(selected) |->
            [chunk_id |-> selected[i].chunk_id, label |-> selected[i].label,
             source |-> selected[i].source, owner_user_id |-> selected[i].owner_user_id,
             similarity |-> 80]]

\* querySource as Promise.allSettled sees it; remote is what the remote API
\* does with the call
querySource(sourceId, rows, top_k, remote) ==
    LET source == sourceRegistry[CHOOSE i \in 1..Len(sourceRegistry) : sourceRegistry[i].source_id = sourceId]
    IN  IF ~source.enabled THEN [status |-> "rejected", chunks |-> <<>>]
        ELSE CASE source.source_type = "local" ->
                      [status |-> "fulfilled", chunks |-> queryLocalSource(sourceId, rows, top_k)]
               [] source.source_type = "remote_api" ->
                      IF remote = "ok" THEN [status |-> "fulfilled", chunks |-> RemoteChunks]
                      ELSE [status |-> "rejected", chunks |-> <<>>]
               [] OTHER -> [status |-> "rejected", chunks |-> <<>>]

\* allChunks.sort((a, b) => b.similarity - a.similarity), a stable sort
RECURSIVE sortBySimilarity(_)
sortBySimilarity(cs) ==
    IF cs = <<>> THEN <<>>
    ELSE LET top == CHOOSE m \in {cs[i].similarity : i \in 1..Len(cs)} :
                        \A i \in 1..Len(cs) : cs[i].similarity <= m
             IsTop(c) == c.similarity = top
             NotTop(c) == c.similarity # top
         IN  SelectSeq(cs, IsTop) \o sortBySimilarity(SelectSeq(cs, NotTop))

\* evaluatePolicy of the federation service
federationEvaluatePolicy(user, chunk, fault) ==
    LET response == AxiosPost([subject |-> [user_id |-> user.user_id, groups |-> user.groups,
                                            attrs |-> user.attrs],
                               resource |-> [label |-> chunk.label, source |-> chunk.source,
                                             owner |-> chunk.owner_user_id, tenant |-> TENANT],
                               action |-> "read"], fault)
    IN  IF response.threw
        THEN [chunk_id |-> chunk.chunk_id, allow |-> Bool("false"),
              step_up_required |-> Undef, reason |-> Str("Policy evaluation failed")]
        ELSE [chunk_id |-> chunk.chunk_id, allow |-> response.data.allow,
              step_up_required |-> response.data.step_up_required,
              reason |-> response.data.reason]

RECURSIVE Flatten(_)
Flatten(seqs) == IF seqs = <<>> THEN <<>> ELSE Head(seqs) \o Flatten(Tail(seqs))

FederationCall(user_id, sources, status, top, decisions, filteredChunks) ==
    [op |-> "federationQuery", user_id |-> user_id, sources |-> sources, status |-> status,
     top |-> top, policy_decisions |-> decisions, chunks |-> filteredChunks]

\* POST /federation/query
FederationQuery(user_id, sources, top_k, remote) ==
    LET targetSources == IF Len(sources) > 0 THEN SelectSeq(sources, registered)
                         ELSE [i \in 1..Len(sourceRegistry) |-> sourceRegistry[i].source_id]
        sourceResults == [i \in 1..Len(targetSources) |->
                             querySource(targetSources[i], chunks, top_k, remote)]
        allChunks == Flatten([i \in 1..Len(targetSources) |-> sourceResults[i].chunks])
        topChunks == Take(sortBySimilarity(allChunks), top_k)
    IN  /\ last.op = "none"
        /\ IF ~\E u \in federationIdentities : u.user_id = user_id
           THEN last' = FederationCall(user_id, sources, 404, <<>>, <<>>, <<>>)
           ELSE IF Len(targetSources) = 0
           THEN last' = FederationCall(user_id, sources, 400, <<>>, <<>>, <<>>)
           ELSE \E faults \in [1..Len(topChunks) -> GatewayFaults] :
                   LET user == CHOOSE u \in federationIdentities : u.user_id = user_id
                       policyDecisions == [i \in 1..Len(topChunks) |->
                                              federationEvaluatePolicy(user, topChunks[i], faults[i])]
                       Allowed(i) == Truthy(policyDecisions[i].allow)
                       idx == SelectSeq([i \in 1..Len(topChunks) |-> i], Allowed)
                   IN  last' = FederationCall(user_id, sources, 200, topChunks, policyDecisions,
                                              [k \in 1..Len(idx) |-> topChunks[idx[k]]])
        /\ UNCHANGED <<chunks, ledgerVars, sessVars>>

NextFederation ==
    \/ Return
    \/ \E label \in GatewayLabels : AddChunk(label, TENANT)
    \/ \E source_id \in SourceIds, source_type \in SourceTypes : RegisterSource(source_id, source_type)
    \/ \E sourceId \in SourceIds : DisableSource(sourceId)
    \/ \E user_id \in FederationUserIds, sources \in SourceLists, top_k \in 1..MaxTopK, remote \in {"ok", "failed"} :
          FederationQuery(user_id, sources, top_k, remote)

SpecFederation == Init /\ [][NextFederation]_vars

\* the redaction services applied to texts
NextRedact ==
    \/ Return
    \/ \E service \in {"gateway", "library"}, text \in Texts, classification \in Labels :
          MaskPII(service, text, classification)

SpecRedact == Init /\ [][NextRedact]_vars

\* the gateway with its session store, the policy decision point behind it
NextGateway ==
    \/ Return
    \/ \E label \in GatewayLabels : AddChunk(label, TENANT)
    \/ \E token \in Tokens, user_id \in BodyUserIds, top_k \in 1..MaxTopK :
          Search(token, user_id, top_k)
    \/ \E token \in Tokens, user_id \in UserIds : StepUp(token, user_id)
    \/ \E user_id \in UserIds, set_at \in 0..MaxTime :
          Timeout([key |-> sessionKey(user_id), set_at |-> set_at])
    \/ Tick
    \/ auditLogCallback(1)
    \/ InsertCommit(1)

SpecGateway == Init /\ [][NextGateway]_vars

(***************************************************************************)
(* Properties of the retriever.                                            *)
(***************************************************************************)
Returned == last.result.chunks
Candidates == last.result.candidates
Decisions == last.result.policy_decisions
Answered == last.op = "retrieve" /\ ~last.threw

\* the candidate positions whose decision is ALLOW, and the k-th of them
AllowIdx == {i \in 1..Len(Candidates) : Decisions[i].decision = "ALLOW"}
KthAllowed(k) == CHOOSE i \in AllowIdx : Cardinality({j \in AllowIdx : j <= i}) = k

\* C1: every fragment returned by a search belongs to a document whose
\* tenant equals the tenant of the subject; a fragment of another tenant is
\* never returned.
C1_TenantIsolation ==
    Answered =>
        \A k \in 1..Len(Returned) :
            chunks[Returned[k].chunk_id].tenant = last.user.tenant

\* a search that returned a fragment while the store holds a Public fragment
\* of another tenant
C1_Witness ==
    /\ Answered
    /\ Len(Returned) > 0
    /\ \E r \in 1..Len(chunks) :
          chunks[r].tenant # last.user.tenant /\ chunks[r].label = "Public"

\* the order Public < Internal < Confidential < Regulated and the clearance
\* that admits each label; a missing or unknown clearance counts as public
LabelRank(label) ==
    CASE label = "Public" -> 1
      [] label = "Internal" -> 2
      [] label = "Confidential" -> 3
      [] label = "Regulated" -> 4

ClearanceRank(clearance) ==
    CASE clearance = Str("public") -> 1
      [] clearance = Str("internal") -> 2
      [] clearance = Str("confidential") -> 3
      [] clearance = Str("regulated") -> 4
      [] OTHER -> 1

\* C2: every fragment returned to a subject has a label within the labels
\* allowed for the subject's clearance; a missing or unknown clearance is
\* treated as public.
C2_ClearanceBound ==
    Answered =>
        \A k \in 1..Len(Returned) :
            LabelRank(Returned[k].label) <= ClearanceRank(last.user.attrs.clearance)

\* a search that returned a fragment while the subject's tenant holds a
\* fragment labelled above the subject's clearance
C2_Witness ==
    /\ Answered
    /\ Len(Returned) > 0
    /\ \E r \in 1..Len(chunks) :
          /\ chunks[r].tenant = last.user.tenant
          /\ LabelRank(chunks[r].label) > ClearanceRank(last.user.attrs.clearance)

\* every candidate has its decision reported, in candidate order, and a
\* returned fragment is a candidate whose decision is ALLOW
DecisionsReported ==
    /\ Len(Decisions) = Len(Candidates)
    /\ \A i \in 1..Len(Candidates) : Decisions[i].chunk_id = Candidates[i].chunk_id
    /\ \A k \in 1..Len(Returned) : \A i \in 1..Len(Candidates) :
          Returned[k].chunk_id = Candidates[i].chunk_id
              => Decisions[i].decision = "ALLOW"

\* C3 as stated: retrieve returns exactly the candidates whose decision is
\* ALLOW, in candidate order, and reports every decision.
C3_ExactlyAllowed ==
    Answered =>
        /\ DecisionsReported
        /\ Len(Returned) = Cardinality(AllowIdx)
        /\ \A k \in 1..Len(Returned) : Returned[k] = Candidates[KthAllowed(k)]

\* C3 amended: retrieve returns the first top_k of the candidates whose
\* decision is ALLOW, in candidate order; a candidate whose decision is DENY
\* or STEP_UP_REQUIRED is never returned, and its decision is reported.
C3_FirstTopKAllowed ==
    Answered =>
        /\ DecisionsReported
        /\ Len(Returned) = Min(last.top_k, Cardinality(AllowIdx))
        /\ \A k \in 1..Len(Returned) : Returned[k] = Candidates[KthAllowed(k)]

\* a search with a candidate that needs step-up ranked before an allowed one
C3_Witness ==
    /\ Answered
    /\ Len(Returned) > 0
    /\ \E i \in 1..Len(Candidates) : \E j \in 1..Len(Candidates) :
          /\ i < j
          /\ Decisions[i].decision = "STEP_UP_REQUIRED"
          /\ Decisions[j].decision = "ALLOW"

SameActor(i, j) == ledger[i].actor_user_id = ledger[j].actor_user_id

\* the hash of the row of the same actor committed last before row i
CommittedBefore(i) ==
    LET earlier == {j \in 1..(i - 1) : SameActor(i, j)}
    IN  IF earlier = {} THEN NULL
        ELSE ledger[CHOOSE j \in earlier : \A k \in earlier : k <= j].hash

\* C5: when inserts for one actor interleave, each new record's prev_hash is
\* the hash of the most recent committed record of that actor, and no two
\* records of one actor carry the same prev_hash (the chain does not fork).
C5_Serialized ==
    /\ \A i \in 1..Len(ledger) : ledger[i].prev_hash = CommittedBefore(i)
    /\ \A i, j \in 1..Len(ledger) :
          i # j /\ SameActor(i, j) => ledger[i].prev_hash # ledger[j].prev_hash

\* C6: after emits executed one at a time, Verify over every actor reports
\* valid with no failed hashes and no broken links.
C6_ChainValid ==
    \A actor \in Actors :
        LET v == Verify(ledger, actor)
        IN  v.valid /\ v.failed_events = {} /\ v.broken_links = {}

C8_WriteOnce ==
    [][/\ Len(ledger') >= Len(ledger)
       /\ \A i \in 1..Len(ledger) : ledger'[i] = ledger[i]
       /\ (\/ \E i \in 1..Len(ledger), reason \in Reasons : UpdateAttempt(i, reason)
           \/ \E i \in 1..Len(ledger) : DeleteAttempt(i))
          => dbError' = WormError /\ ledger' = ledger]_vars

C8_Witness ==
    /\ dbError = WormError
    /\ Len(ledger) >= 2
    /\ ledger = pristine

(***************************************************************************)
(* Properties of the gateway's sessions and step-up.                       *)
(***************************************************************************)
\* the mfa flag /search reads for a subject
Satisfied(user_id) == Truthy(mfaSatisfied(sessionStore, user_id))

\* an Assert for the subject occurred less than TTL ago: the timer a
\* step-up registers stays pending at least until TTL after it
AssertedWithinTtl(user_id) ==
    \E timer \in timers : timer.key = sessionKey(user_id) /\ now - timer.set_at < TTL

\* C9: whenever no expiry callback is waiting to run, the mfa flag of a
\* subject is set if and only if a step-up for that subject occurred within
\* the last TTL seconds, so a repeated step-up extends the window.
C9_FlagIffRecentAssert ==
    (\A timer \in timers : ~Due(timer)) =>
        \A user_id \in UserIds : Satisfied(user_id) <=> AssertedWithinTtl(user_id)

InSources(chunk_id) == \E k \in 1..Len(last.sources) : last.sources[k] = chunk_id

\* C10: a search by a subject with confidential clearance, answered with the
\* decision point reachable and every candidate within top_k, gives for each
\* Confidential candidate a step-up-required decision and withholds it while
\* no step-up is in force, and returns it while a step-up is in force.
C10_StepUpGate ==
    (/\ last.op = "search"
     /\ last.status = 200
     /\ last.token = last.user_id
     /\ last.user.attrs.clearance = Str("confidential")
     /\ \A i \in 1..Len(last.faults) : last.faults[i] = "none"
     /\ Len(Candidates) <= last.top_k) =>
        \A i \in 1..Len(Candidates) :
            Candidates[i].label = "Confidential" =>
                IF Truthy(last.user.attrs.mfa_satisfied)
                THEN InSources(Candidates[i].chunk_id)
                ELSE /\ Decisions[i].decision = "STEP_UP_REQUIRED"
                     /\ ~InSources(Candidates[i].chunk_id)

(***************************************************************************)
(* Properties of the answer /search composes.                              *)
(***************************************************************************)
SearchAnswered == last.op = "search" /\ last.status = 200

\* C11: an answered search with at least one allowed fragment but fewer than
\* the evidence threshold reports insufficient_evidence, carries the
\* watermark text, and its sources contain every allowed fragment.
C11_WatermarkKeepsAllowed ==
    (/\ SearchAnswered
     /\ last.result.evidence_count >= 1
     /\ last.result.evidence_count < last.min_evidence_threshold) =>
        /\ last.insufficient_evidence
        /\ last.response = Watermark
        /\ \A k \in 1..Len(last.result.chunks) : InSources(last.result.chunks[k].chunk_id)

\* C12: an answered search reports insufficient_evidence exactly when the
\* number of allowed fragments is below the evidence threshold, for every
\* top_k.
C12_FlagIffBelowThreshold ==
    SearchAnswered =>
        (last.insufficient_evidence <=>
            last.result.evidence_count < last.min_evidence_threshold)

PairAnswered == last.op = "pair" /\ ~last.threw

ReturnedTo1 == {last.result.chunks[k].chunk_id : k \in 1..Len(last.result.chunks)}

ReturnedTo2 == {last.result2.chunks[k].chunk_id : k \in 1..Len(last.result2.chunks)}

OnlyClearanceDiffers == last.user.user_id = last.user2.user_id /\ last.user.tenant = last.user2.tenant /\ last.user.groups = last.user2.groups /\ last.user.attrs.mfa_satisfied = last.user2.attrs.mfa_satisfied /\ last.user.attrs.allow_export = last.user2.attrs.allow_export

\* C13: for two subjects that differ only in clearance, the lower one first,
\* on the same store, query and top_k, every fragment returned to the lower
\* subject is returned to the higher one too.
C13_ClearanceMonotone ==
    (/\ PairAnswered
     /\ OnlyClearanceDiffers
     /\ ClearanceRank(last.user.attrs.clearance) <= ClearanceRank(last.user2.attrs.clearance)) =>
        ReturnedTo1 \subseteq ReturnedTo2

OnePerLabel == Len(chunks) = 4 /\ \A label \in Labels : \E k \in 1..4 : chunks[k].label = label /\ chunks[k].tenant = TENANT

LabelsOf(cs) == {cs[k].label : k \in 1..Len(cs)}

\* C14: with one fragment per label in tenant dash, top_k = 10 and
\* min_evidence = 1, alice (internal, eng) gets exactly the Public and the
\* Internal fragment and sam (regulated, legal) gets all four.
C14_ScenarioA ==
    (/\ PairAnswered
     /\ OnePerLabel
     /\ last.user.user_id = "alice@dash"
     /\ last.user2.user_id = "sam@legal"
     /\ last.top_k = ScenarioTopK
     /\ last.min_evidence_threshold = 1) =>
        /\ LabelsOf(last.result.chunks) = {"Public", "Internal"}
        /\ LabelsOf(last.result2.chunks) = Labels
        /\ Len(last.result.chunks) = 2
        /\ Len(last.result2.chunks) = 4

\* the audit rows a request has caused: those in the ledger, and those the
\* pending setImmediate callbacks and the running INSERT statements will add
PendingActions == {auditAction(immediates[i].path) : i \in 1..Len(immediates)} \cup {inflight[w].new.action : w \in Busy}

DecisionRows(d) == {i \in 1..Len(ledger) : ledger[i].action = <<"PDP_DECISION">> /\ ledger[i].object_id = <<ToString(d.chunk_id)>> /\ ledger[i].policy_decision = <<d.decision>>}

DecisionRowsPending(d) == {a \in PendingActions : a = <<"PDP_DECISION">>}

\* C15: when a search is answered, one PDP_DECISION audit record, neither
\* none nor several, has been emitted for each candidate fragment the
\* request evaluated, carrying that candidate's decision.
C15_OneDecisionRecordPerCandidate ==
    SearchAnswered =>
        \A k \in 1..Len(last.result.policy_decisions) :
            Cardinality(DecisionRows(last.result.policy_decisions[k])) + Cardinality(DecisionRowsPending(last.result.policy_decisions[k])) = 1

Responded == last.op \in {"search", "step-up"} /\ authenticateToken(last.token) = 0

RequestPath == IF last.op = "search" THEN "/search" ELSE "/auth/step-up"

Written(userId, path, statusCode) == \E i \in 1..Len(ledger) : ledger[i].actor_user_id = <<userId>> /\ ledger[i].action = auditAction(path) /\ ledger[i].policy_decision = auditDecision(statusCode)

\* C16: when the gateway has sent the response of a request, the audit
\* record of that request is in the ledger: no audit write is pending or
\* was dropped.
C16_AuditBeforeResponse ==
    Responded =>
        /\ immediates = <<>>
        /\ Busy = {}
        /\ Written(last.token, RequestPath, last.status)

BadTokens == {"none", "invalid"}

\* C18: a request with a missing token or with a token that fails
\* verification is rejected with 401 and has none of the handler's effects.
C18_Unauthenticated ==
    [][(last.op = "none" /\ last'.op # "none" /\ last'.token \in BadTokens) =>
          /\ last'.status = 401
          /\ last'.user = NoUser
          /\ last'.result = NoResult
          /\ UNCHANGED <<sessVars, ledgerVars, chunks>>]_vars

ExportBy(token) == last.op = "none" /\ last'.op = "export" /\ last'.token = token

\* C17: a POST /export by a subject whose allow_export attribute is false
\* is answered with 403, adds an EXPORT_DENIED record with decision DENY to
\* the ledger, and calls neither the retriever nor the decision point.
C17_ExportDenied ==
    [][\A token \in ExportTokens :
          (/\ ExportBy(token)
           /\ authenticateToken(token) = 0
           /\ getUser(token) # NoUser
           /\ getUser(token).attrs.allow_export = Bool("false")) =>
              /\ last'.status = 403
              /\ last'.result = NoResult
              /\ Len(ledger') = Len(ledger) + 1
              /\ ledger'[Len(ledger')].action = <<"EXPORT_DENIED">>
              /\ ledger'[Len(ledger')].policy_decision = <<"DENY">>]_vars

Auditors == {u.user_id : u \in {i \in identities : "auditor" \in i.groups}}

\* C19: GET /audit/{subject_id} with the token of a subject that is neither
\* subject_id nor an auditor is refused with 403 and returns no events.
C19_AuditReadAuthorized ==
    (/\ last.op = "audit"
     /\ authenticateToken(last.token) = 0
     /\ last.token # last.user_id
     /\ last.token \notin Auditors) =>
        /\ last.status = 403
        /\ last.events = <<>>

Masked == last.op = "maskPII"

\* C20: redacting a redacted text again, with the same label and on the same
\* service instance, changes nothing.
C20_RedactionIdempotent ==
    Masked => last.twice.text = last.once.text

CatalogMatch == \E k \in 1..Len(patterns(last.service)) : exec(patterns(last.service)[k], last.text, 0)

\* C21: maskPII leaves a Public text as it is, and for every other label a
\* text in which a pattern of the catalog matches is returned masked; in
\* particular a Regulated text with a catalog match is never returned as is.
C21_ClassificationAware ==
    Masked =>
        /\ (last.classification = "Public" => last.once.text = last.text /\ ~last.once.redaction_applied)
        /\ (last.classification # "Public" /\ CatalogMatch =>
                last.once.redaction_applied /\ last.once.text # last.text)

\* C22: two runs of the same retrieval on the same store return the same
\* sequence of fragments, and that sequence is ordered by descending
\* similarity (every fragment has the similarity 0.8 the query selects) with
\* ties in ascending order of the fragment identifier.
C22_DeterministicOrder ==
    last.op = "twice" =>
        /\ last.result.chunks = last.result2.chunks
        /\ \A i, j \in 1..Len(last.result.chunks) :
              i < j => last.result.chunks[i].chunk_id < last.result.chunks[j].chunk_id

\* C23: evaluatePolicy maps the reply of the engine to STEP_UP_REQUIRED when
\* the reply signals step_up_required and the subject's mfa_satisfied is
\* false, otherwise to ALLOW when the reply allows, otherwise to DENY; a reply
\* with step_up_required and allow for a subject with mfa_satisfied maps to
\* ALLOW.
C23_AdapterMapping ==
    last.op = "evaluatePolicy" =>
        last.decision =
            IF Truthy(last.data.step_up_required) /\ ~Truthy(last.user.attrs.mfa_satisfied)
            THEN "STEP_UP_REQUIRED"
            ELSE IF Truthy(last.data.allow) THEN "ALLOW" ELSE "DENY"

\* C24: the result of retrieve has insufficient_evidence exactly when the
\* number of candidates decided ALLOW, counted before the truncation to
\* top_k, is below min_evidence_threshold; with the flag set or not, the
\* returned chunks are the first top_k candidates decided ALLOW.
C24_EvidenceThreshold ==
    Answered =>
        /\ last.result.insufficient_evidence = (Cardinality(AllowIdx) < last.min_evidence_threshold)
        /\ last.result.evidence_count = Cardinality(AllowIdx)
        /\ Len(Returned) = Min(last.top_k, Cardinality(AllowIdx))
        /\ \A k \in 1..Len(Returned) : Returned[k] = Candidates[KthAllowed(k)]

\* enough candidates are allowed, yet fewer than the threshold are returned
C24_Witness ==
    /\ Answered
    /\ Cardinality(AllowIdx) >= last.min_evidence_threshold
    /\ Len(Returned) < last.min_evidence_threshold
    /\ ~last.result.insufficient_evidence

\* C25: a candidate whose document belongs to another tenant than the
\* subject never gets the decision ALLOW from the policy stage: the resource
\* tenant presented to the engine is the tenant of the candidate's document.
C25_TenantCheckedByPolicy ==
    last.op = "evaluateCandidate" =>
        /\ last.request.resource.tenant = last.row.tenant
        /\ (last.row.tenant # last.user.tenant => last.decision.decision # "ALLOW")

\* C26: retrieve never raises: every call returns a result value, a failed
\* policy evaluation showing as a DENY decision of its candidate and a
\* failure of the store during pre-filtering not being thrown to the caller.
C26_RetrieverNeverRaises ==
    last.op = "retrieve" =>
        /\ ~last.threw
        /\ \A i \in 1..Len(Candidates) :
              last.faults[i] # "none" => Decisions[i].decision = "DENY"

\* C27: the subject a gateway request acts for is the subject of its verified
\* token: a search is answered under the attributes of the token's subject,
\* and a step-up sets the step-up flag of the token's subject only.
C27_SubjectBinding ==
    [][/\ (last'.op = "search" /\ last'.status = 200 => last'.user.user_id = last'.token)
       /\ (last'.op = "step-up" /\ last.op = "none" =>
               sessionStore' \ sessionStore \subseteq {sessionKey(last'.token)})]_vars

\* C28: every authorization request the retriever builds for the subject a
\* search loaded is accepted by the request schema of /authorize, so that
\* the decision recorded for a candidate, when the engine is reached, is the
\* result of the policy and not the DENY of the error path.
C28_RequestAccepted ==
    last.op = "search" /\ last.status = 200 =>
        \A i \in 1..Len(Candidates) :
            /\ AuthorizationRequestSchema(pdpRequest(last.user, Candidates[i]))
            /\ (last.faults[i] = "none" => Decisions[i].reason # "Policy evaluation failed")

\* C29: two audit records that differ in a field (a null field against an
\* empty text and a different split of the same characters between adjacent
\* fields included) never get the same SHA-256 input, neither in
\* calculate_audit_hash nor in calculateHash.
C29_HashInputInjective ==
    last.op = "hashPair" /\ last.e1 # last.e2 =>
        /\ last.sql1 # last.sql2
        /\ last.js1 # last.js2

\* C30: POST /federation/query returns a chunk only if the decision point
\* answered allow = true and step_up_required = false for it; a chunk that
\* needs step-up or whose evaluation failed is never returned, whatever
\* sources have been registered and disabled.
C30_FederationReturnsAllowedOnly ==
    last.op = "federationQuery" =>
        \A k \in 1..Len(last.chunks) :
            \E i \in 1..Len(last.top) :
                /\ last.top[i] = last.chunks[k]
                /\ last.policy_decisions[i].allow = Bool("true")
                /\ last.policy_decisions[i].step_up_required = Bool("false")

====
